---- MODULE Spec2Model ----
(***************************************************************************)
(* Browser-automation facade: two adapters (SeleniumBrowser over WebDriver *)
(* and CustomBrowser over Playwright), their contexts and pages, the state *)
(* snapshot get_state(), and the ChromeDriver executable locator.          *)
(*                                                                         *)
(* Values.  A file-system path is the sequence of its components, "/"      *)
(* first when it is absolute; the empty sequence is the empty string.      *)
(* Python's None is NonePath among paths, NoneStr among strings, NoneDict  *)
(* among dicts and Null among object references.                           *)
(***************************************************************************)
EXTENDS Integers, Sequences, FiniteSets, TLC

VARIABLES
    environ,    \* os.environ: CHROMEDRIVER_PATH, PATH, NIX_PROFILES
    files,      \* the host file system: absolute path -> kind of entry
    found,      \* locator run: what find_chromedriver_executable returned
    adapter,    \* the adapter the consumer selected: "selenium" or "custom"
    sel,        \* the SeleniumBrowser object: driver, launch_options
    drivers,    \* WebDriver backend: the sessions webdriver.Chrome() created
    cus,        \* the CustomBrowser object: playwright, browser, launch_args
    pws,        \* Playwright backend: the driver processes start() created
    pwbrowsers, \* Playwright backend: the browsers chromium.launch() created
    launched,   \* history: a launch succeeded and no close was called since
    swindow,    \* WebDriver backend: the driver's one window and its document
    sctx,       \* the SeleniumBrowserContext object and its SeleniumPage wrappers
    pwctx,      \* Playwright backend: the BrowserContext of CustomBrowserContext
    pwpages,    \* Playwright backend: the pages new_page() created
    dom,        \* selectors of the elements scripts added to the document
    call,       \* the SeleniumPage call in progress (its bounded wait)
    events,     \* the clicks and keystrokes delivered to elements so far
    last        \* the last call made on the facade and how it ended

(***************************************************************************)
(* Bounds of the model.                                                    *)
(***************************************************************************)
MaxFiles == 2       \* entries present in the modelled file system
MaxLaunches == 3    \* native engines started over one run
MaxPages == 2       \* pages (page wrappers) created in one context
MaxEvents == 2      \* clicks and keystrokes delivered over one run

(***************************************************************************)
(* Python values                                                           *)
(***************************************************************************)
Null == 0                               \* None, among object references
NoneStr == "None"                       \* None, among strings
NoneInt == -1                           \* None, among millisecond timeouts
NoneB64 == <<-1>>                       \* None, among base64 texts
NoneDict == [none |-> TRUE]             \* None, among dicts
EmptyDict == [k \in {} |-> k]           \* {}

\* dict.get(k, default)
Get(d, k, default) == IF k \in DOMAIN d THEN d[k] ELSE default

\* No call is in progress.
NoCall == [op |-> "none"]

\* How a call on the facade ended: it returned, or it raised err.
Returned(op) == [op |-> op, outcome |-> "ok", err |-> "none"]
Raised(op, err) == [op |-> op, outcome |-> "raise", err |-> err]

(***************************************************************************)
(* Paths                                                                   *)
(***************************************************************************)
NonePath == <<"None">>
Root == "/"
Cwd == <<Root, "work">>                 \* os.getcwd()
Home == <<Root, "home", "u">>           \* os.path.expanduser('~')

IsAbs(p) == p # <<>> /\ p[1] = Root

\* os.path.join(a, b): an absolute b discards a.
Join(a, b) == IF IsAbs(b) THEN b ELSE a \o b

\* os.path.normpath, for the "." components the modelled paths can hold.
NormPath(p) == SelectSeq(p, LAMBDA c : c # ".")

\* os.path.abspath(p) = normpath(join(getcwd(), p))
AbsPath(p) == NormPath(Join(Cwd, p))

\* os.path.expanduser: a leading "~" component becomes the home directory.
ExpandUser(p) == IF p # <<>> /\ p[1] = "~" THEN Home \o Tail(p) ELSE p

(***************************************************************************)
(* File system probes.  The OS resolves a relative path against the        *)
(* working directory.                                                      *)
(***************************************************************************)
Kind(p) == IF AbsPath(p) \in DOMAIN files THEN files[AbsPath(p)] ELSE "absent"

\* os.path.isfile(p)
IsFile(p) == Kind(p) \in {"file", "exec"}

\* os.access(p, os.X_OK): executable files, and searchable directories.
AccessX(p) == Kind(p) \in {"exec", "dir"}

\* str.split(' ') of a string given as its sequence of tokens, " " being
\* the separator: every separator ends one piece, so two separators in a
\* row, or one at either end, give an empty piece.
RECURSIVE SplitSpace(_, _, _)
SplitSpace(s, i, cur) ==
    IF i > Len(s) THEN <<cur>>
    ELSE IF s[i] = <<" ">> THEN <<cur>> \o SplitSpace(s, i + 1, <<>>)
    ELSE SplitSpace(s, i + 1, cur \o s[i])

\* shutil.which('chromedriver'): the first directory of PATH holding an
\* executable regular file of that name; None when PATH is unset or empty.
RECURSIVE WhichIn(_, _)
WhichIn(dirs, i) ==
    IF i > Len(dirs) THEN NonePath
    ELSE LET c == Join(dirs[i], <<"chromedriver">>)
         IN  IF IsFile(c) /\ AccessX(c) THEN c ELSE WhichIn(dirs, i + 1)

Which == WhichIn(environ.PATH, 1)

\* Truthiness of an Optional[str] path: None and '' are falsy.
Truthy(p) == p # NonePath /\ p # <<>>

\* NIX_PROFILES is kept as its sequence of tokens (profile paths and " ").
NoneTokens == << <<"None">> >>

FixedCommonPaths ==
    << Join(Cwd, <<"chromedriver">>),
       ExpandUser(<<"~", ".local", "bin", "chromedriver">>),
       Join(Cwd, <<".pythonlibs", "bin", "chromedriver">>),
       <<Root, "usr", "local", "bin", "chromedriver">>,
       <<Root, "usr", "bin", "chromedriver">> >>

\* The paths appended for NIX_PROFILES, in the order of the profiles.
NixPaths ==
    IF environ.NIX_PROFILES # NoneTokens /\ environ.NIX_PROFILES # <<>>
    THEN LET profiles == SplitSpace(environ.NIX_PROFILES, 1, <<>>)
         IN  [i \in 1..Len(profiles) |->
                 Join(profiles[i], <<"bin", "chromedriver">>)]
    ELSE <<>>

CommonPaths == FixedCommonPaths \o NixPaths

RECURSIVE FirstCommon(_, _)
FirstCommon(paths, i) ==
    IF i > Len(paths) THEN NonePath
    ELSE LET abs_path == AbsPath(paths[i])
         IN  IF IsFile(abs_path) /\ AccessX(abs_path) THEN abs_path
             ELSE FirstCommon(paths, i + 1)

\* Step 1: the override is used when it is set and names an executable file.
EnvOverrideUsable ==
    LET env_path == environ.CHROMEDRIVER_PATH
    IN  Truthy(env_path) /\ IsFile(env_path) /\ AccessX(env_path)

\* Mutant of find_chromedriver_executable: the search path is consulted
\* before the override.
WhichFirst ==
    LET shutil_path == Which
    IN  IF Truthy(shutil_path) /\ IsFile(shutil_path) /\ AccessX(shutil_path)
        THEN shutil_path
        ELSE IF EnvOverrideUsable THEN environ.CHROMEDRIVER_PATH
        ELSE FirstCommon(CommonPaths, 1)

find_chromedriver_executable ==
    IF EnvOverrideUsable THEN environ.CHROMEDRIVER_PATH
    ELSE LET shutil_path == Which
         IN  IF Truthy(shutil_path) /\ IsFile(shutil_path) /\ AccessX(shutil_path)
             THEN shutil_path
             ELSE FirstCommon(CommonPaths, 1)

(***************************************************************************)
(* Inputs of the locator: environments and file systems.                   *)
(***************************************************************************)
UsrBin == <<Root, "usr", "bin">>
OptBin == <<Root, "opt", "bin">>
OverridePath == <<Root, "opt", "cd", "chromedriver">>
RelOverride == <<".", "chromedriver">>
Profile1 == <<Root, "nix", "p1">>
Profile2 == <<Root, "nix", "p2">>
Space == <<" ">>

\* The absolute paths at which the modelled file system may hold an entry.
FsPaths ==
    { FixedCommonPaths[i] : i \in 1..Len(FixedCommonPaths) }
    \cup { OverridePath,
           Join(OptBin, <<"chromedriver">>),
           Join(Profile1, <<"bin", "chromedriver">>),
           Join(Profile2, <<"bin", "chromedriver">>),
           Join(Cwd, <<"bin", "chromedriver">>) }

Environs ==
    [ CHROMEDRIVER_PATH :
          {NonePath, <<>>, OverridePath, RelOverride,
           <<Root, "usr", "bin", "chromedriver">>},
      PATH : {<<>>, <<UsrBin>>, <<OptBin, UsrBin>>},
      NIX_PROFILES :
          {NoneTokens, <<>>, <<Profile1, Space, Profile2>>,
           <<Profile2, Space, Space, Profile1>>} ]

FileSystems ==
    UNION { [S -> {"file", "exec", "dir"}] :
              S \in {T \in SUBSET FsPaths : Cardinality(T) <= MaxFiles} }

NotRun == <<"NotRun">>

\* The hosts the browsers are launched on: ChromeDriver on PATH, or nowhere.
BareEnviron ==
    [CHROMEDRIVER_PATH |-> NonePath, PATH |-> <<UsrBin>>,
     NIX_PROFILES |-> NoneTokens]
Hosts ==
    { EmptyDict,
      [p \in {Join(UsrBin, <<"chromedriver">>)} |-> "exec"] }

(***************************************************************************)
(* SeleniumBrowser (src/browser/selenium_browser.py)                       *)
(***************************************************************************)
\* The keyword arguments the consumer launches with.
LaunchKwargs ==
    { EmptyDict,
      [headless |-> TRUE, browser_window_size |-> [width |-> 800]],
      [executable_path |-> OverridePath] }

\* The ChromeOptions launch() builds from its kwargs: the argument list.
ChromeOptions(kwargs) ==
    LET window_size == Get(kwargs, "browser_window_size", NoneDict)
    IN  (IF Get(kwargs, "headless", FALSE)
         THEN << <<"--headless">>, <<"--disable-gpu">> >> ELSE <<>>)
        \o (IF window_size # NoneDict /\ window_size # EmptyDict
            THEN << <<"--window-size",
                      Get(window_size, "width", 1280),
                      Get(window_size, "height", 720)>> >>
            ELSE <<>>)

\* The path launch() hands to webdriver.Chrome: the executable_path option,
\* else what the locator finds, else None (Selenium then searches PATH).
ChromedriverExePath(kwargs) ==
    LET given == Get(kwargs, "executable_path", NonePath)
    IN  IF Truthy(given) THEN given ELSE find_chromedriver_executable

\* SeleniumBrowser.is_connected
SeleniumIsConnected ==
    sel.driver # Null /\ drivers[sel.driver].session_id # Null

\* Mutant of AlreadyLaunched: launch() without its guard.
NeverAlreadyLaunched == FALSE

\* if self.driver: return -- the guard of launch()
AlreadyLaunched == sel.driver # Null

\* SeleniumBrowser.launch(**kwargs); chromeOk: webdriver.Chrome() returns a
\* driver (with a session), otherwise it raises.
SeleniumLaunch(kwargs, chromeOk) ==
    /\ adapter = "selenium"
    /\ IF AlreadyLaunched
       THEN /\ last' = Returned("launch") @@ [kwargs |-> kwargs]
            /\ launched' = TRUE
            /\ UNCHANGED <<sel, drivers>>
       ELSE IF chromeOk
       THEN /\ Len(drivers) < MaxLaunches
            /\ drivers' = Append(drivers,
                   [session_id |-> Len(drivers) + 1,
                    live |-> TRUE,
                    executable_path |-> ChromedriverExePath(kwargs),
                    options |-> ChromeOptions(kwargs)])
            /\ sel' = [driver |-> Len(drivers) + 1, launch_options |-> kwargs]
            /\ last' = Returned("launch") @@ [kwargs |-> kwargs]
            /\ launched' = TRUE
       ELSE /\ sel' = [driver |-> Null, launch_options |-> kwargs]
            /\ last' = Raised("launch", "WebDriverException")
                          @@ [kwargs |-> kwargs]
            /\ UNCHANGED <<drivers, launched>>
    /\ UNCHANGED <<adapter, cus, pws, pwbrowsers>>

\* SeleniumBrowser.close(); quitOk: driver.quit() returns, otherwise it
\* raises and close() logs the error.  The Chrome driver's quit() stops the
\* driver service in either case.
SeleniumClose(quitOk) ==
    /\ adapter = "selenium"
    /\ IF sel.driver # Null
       THEN /\ drivers' = [drivers EXCEPT ![sel.driver].live = FALSE]
            /\ sel' = [sel EXCEPT !.driver = Null]
       ELSE UNCHANGED <<sel, drivers>>
    /\ last' = [Returned("close") EXCEPT
                   !.err = IF sel.driver # Null /\ ~quitOk
                           THEN "logged" ELSE "none"]
    /\ launched' = FALSE
    /\ UNCHANGED <<adapter, cus, pws, pwbrowsers>>

(***************************************************************************)
(* CustomBrowser (src/browser/custom_browser.py)                           *)
(***************************************************************************)
\* CustomBrowser.is_connected
CustomIsConnected ==
    cus.browser # Null /\ pwbrowsers[cus.browser].connected

\* CustomBrowser.launch(**kwargs); startOk: async_playwright().start()
\* returns; launchOk: chromium.launch() returns.
CustomLaunch(kwargs, startOk, launchOk) ==
    /\ adapter = "custom"
    /\ IF ~startOk
       THEN /\ last' = Raised("launch", "PlaywrightError")
            /\ UNCHANGED <<cus, pws, pwbrowsers, launched>>
       ELSE /\ Len(pws) < MaxLaunches
            /\ pws' = Append(pws, [running |-> TRUE])
            /\ IF ~launchOk
               THEN /\ cus' = [cus EXCEPT !.playwright = Len(pws) + 1]
                    /\ last' = Raised("launch", "PlaywrightError")
                    /\ UNCHANGED <<pwbrowsers, launched>>
               ELSE /\ pwbrowsers' = Append(pwbrowsers,
                          [connected |-> TRUE, playwright |-> Len(pws) + 1,
                           args |-> kwargs])
                    /\ cus' = [playwright |-> Len(pws) + 1,
                               browser |-> Len(pwbrowsers) + 1,
                               launch_args |-> kwargs]
                    /\ last' = Returned("launch")
                    /\ launched' = TRUE
    /\ UNCHANGED <<adapter, sel, drivers>>

\* Playwright.stop() on process p: the driver process exits, and with it the
\* browsers it launched.
StopPlaywright(p) ==
    /\ pws' = [pws EXCEPT ![p].running = FALSE]
    /\ pwbrowsers' = [b \in DOMAIN pwbrowsers |->
                        IF pwbrowsers[b].playwright = p
                        THEN [pwbrowsers[b] EXCEPT !.connected = FALSE]
                        ELSE pwbrowsers[b]]

\* CustomBrowser.close(); closeOk: Browser.close() returns, otherwise it
\* raises and the browser is left connected or not (stays); stopOk:
\* Playwright.stop() returns.
CustomClose(closeOk, stays, stopOk) ==
    /\ adapter = "custom"
    /\ launched' = FALSE
    /\ LET b == cus.browser
           p == cus.playwright
           closing == b # Null /\ pwbrowsers[b].connected
       IN  IF closing /\ ~closeOk
           THEN /\ pwbrowsers' = [pwbrowsers EXCEPT ![b].connected = stays]
                /\ last' = Raised("close", "PlaywrightError")
                /\ UNCHANGED <<cus, pws>>
           ELSE IF p # Null /\ ~stopOk
           THEN /\ pwbrowsers' =
                     IF closing
                     THEN [pwbrowsers EXCEPT ![b].connected = FALSE]
                     ELSE pwbrowsers
                /\ last' = Raised("close", "PlaywrightError")
                /\ UNCHANGED <<cus, pws>>
           ELSE /\ IF p # Null
                   THEN StopPlaywright(p)
                   ELSE /\ pwbrowsers' =
                             IF closing
                             THEN [pwbrowsers EXCEPT ![b].connected = FALSE]
                             ELSE pwbrowsers
                        /\ UNCHANGED pws
                /\ cus' = [cus EXCEPT !.browser = Null, !.playwright = Null]
                /\ last' = Returned("close")
    /\ UNCHANGED <<adapter, sel, drivers>>

\* Browser.is_connected of the selected adapter.
IsConnected ==
    IF adapter = "selenium" THEN SeleniumIsConnected ELSE CustomIsConnected

\* The native engines (sessions, driver processes, browsers) still alive.
LiveEngines ==
    { <<"driver", d>> : d \in {i \in DOMAIN drivers : drivers[i].live} }
    \cup { <<"playwright", q>> : q \in {i \in DOMAIN pws : pws[i].running} }
    \cup { <<"browser", c>> :
              c \in {i \in DOMAIN pwbrowsers : pwbrowsers[i].connected} }

(***************************************************************************)
(* new_context with its keyword options, in both adapters.  An object      *)
(* passed under 'config' is a pydantic-like model (it has model_dump), a   *)
(* dict, or a plain object holding the options as attributes (dataclass).  *)
(***************************************************************************)
ContextOptions == [viewport |-> [width |-> 800, height |-> 600]]

ConfigKinds == {"model", "dict", "dataclass"}

ContextKwargs ==
    { EmptyDict, ContextOptions }
    \cup { [config |-> [kind |-> k, fields |-> ContextOptions]] :
              k \in ConfigKinds }

\* hasattr(obj, 'model_dump') and isinstance(obj, dict)
HasModelDump(obj) == obj.kind = "model"
IsDict(obj) == obj.kind = "dict"

\* config_data of CustomBrowser.new_context: the mapping handed to the
\* backend's Browser.new_context and kept as the context's config.
ConfigData(kwargs) ==
    IF "config" \in DOMAIN kwargs /\ HasModelDump(kwargs.config)
    THEN kwargs.config.fields
    ELSE IF "config" \in DOMAIN kwargs /\ IsDict(kwargs.config)
    THEN kwargs.config.fields
    ELSE kwargs

\* SeleniumBrowser.new_context(**kwargs): a context over the driver, with
\* its initial page wrapper.
SeleniumNewContext(kwargs) ==
    /\ adapter = "selenium"
    /\ IF sel.driver = Null
       THEN /\ last' = Raised("new_context", "ConnectionError")
                          @@ [kwargs |-> kwargs]
            /\ UNCHANGED sctx
       ELSE /\ sctx' = [current_page |-> 1, pages |-> 1,
                        close_called |-> FALSE]
            /\ last' = Returned("new_context")
                          @@ [kwargs |-> kwargs,
                              value |-> [driver |-> sel.driver,
                                         context_kwargs |-> kwargs]]
    /\ UNCHANGED <<swindow, pwctx, pwpages>>

\* CustomBrowser.new_context(**kwargs).  The backend's Browser.new_context
\* raises on a browser that is closed, and rejects a keyword it does not
\* know, such as 'config' (TypeError).
CustomNewContext(kwargs) ==
    /\ adapter = "custom"
    /\ IF cus.browser = Null
       THEN /\ last' = Raised("new_context", "ConnectionError")
                          @@ [kwargs |-> kwargs]
            /\ UNCHANGED <<pwctx, pwpages>>
       ELSE LET config_data == ConfigData(kwargs)
                called == [kwargs |-> kwargs, backend_options |-> config_data]
            IN  IF ~pwbrowsers[cus.browser].connected
                THEN /\ last' = Raised("new_context", "PlaywrightError")
                                   @@ called
                     /\ UNCHANGED <<pwctx, pwpages>>
                ELSE IF "config" \in DOMAIN config_data
                THEN /\ last' = Raised("new_context", "TypeError") @@ called
                     /\ UNCHANGED <<pwctx, pwpages>>
                ELSE /\ pwctx' = [closed |-> FALSE,
                                  viewport_size |->
                                     Get(config_data, "viewport", NoneDict)]
                     /\ pwpages' = <<>>
                     /\ last' = Returned("new_context") @@ called
                                   @@ [value |-> [browser |-> cus.browser,
                                                  config |-> config_data]]
    /\ UNCHANGED <<swindow, sctx>>

(***************************************************************************)
(* Documents a page can show.  A document has a title, its markup, the     *)
(* selectors that match an element, the element holding the focus, and     *)
(* the bytes a screenshot of it gives.                                     *)
(***************************************************************************)
StartUrl == "data:,"
Urls == {"http://example.com", "http://form.test"}

Doc(url) ==
    CASE url = "http://example.com" ->
           [title |-> "Example Domain",
            html |-> "<html><h1>Example Domain</h1></html>",
            elements |-> {"h1", "a"},
            active |-> [tag_name |-> "body", id |-> "", name |-> ""],
            shot |-> <<137, 80, 78>>]
      [] url = "http://form.test" ->
           [title |-> "Form",
            html |-> "<html><input id=q name=query></html>",
            elements |-> {"#q"},
            active |-> [tag_name |-> "input", id |-> "q", name |-> "query"],
            shot |-> <<255, 216, 7>>]
      [] OTHER ->
           [title |-> "",
            html |-> "<html></html>",
            elements |-> {},
            active |-> [tag_name |-> "body", id |-> "", name |-> ""],
            shot |-> <<0, 0, 0>>]

\* base64.b64encode of three bytes: four 6-bit digits.
B64(bytes) ==
    << bytes[1] \div 4,
       (bytes[1] % 4) * 16 + bytes[2] \div 16,
       (bytes[2] % 16) * 4 + bytes[3] \div 64,
       bytes[3] % 64 >>

Size(w, h) == [width |-> w, height |-> h]

(***************************************************************************)
(* get_state(): the steps of the snapshot and the backend primitive each   *)
(* one uses.  `failing` is the set of steps whose primitive raises.        *)
(***************************************************************************)
Steps ==
    {"url", "markup", "accessibility", "focused", "viewport", "screenshot",
     "title"}

\* The steps that call into the backend, per adapter (page.url and
\* page.viewport_size are attribute reads of the Playwright page).  The
\* viewport step of the Playwright adapter can fail where it reads
\* pw_context.viewport_size: Playwright's BrowserContext class declares no
\* such attribute, so the read raises AttributeError on a backend without
\* it and gives the context's viewport on one that has it.
SeleniumFailable ==
    {"url", "markup", "focused", "viewport", "screenshot", "title"}
CustomFailable ==
    {"markup", "accessibility", "focused", "viewport", "screenshot", "title"}

StateKwargs ==
    { EmptyDict,
      [capture_screenshot |-> FALSE],
      [capture_screenshot |-> TRUE, interesting_only |-> TRUE] }

\* x if x else None, for an attribute value.
OrNone(x) == IF x # "" THEN x ELSE NoneStr

\* try: value / except Exception: default
Try(step, failing, value, default) ==
    IF step \in failing THEN default ELSE value

\* The steps of SeleniumBrowserContext.get_state outside any try block.
SeleniumUnguarded == {"url"}

\* kwargs.get("capture_screenshot", True): the gate of the screenshot step.
CaptureScreenshot(kwargs) == Get(kwargs, "capture_screenshot", TRUE)

\* Mutant of SeleniumAccessibilityTree: a stub tree instead of None.
SeleniumAccessibilityStub == [role |-> "WebArea"]

\* accessibility_tree = None: WebDriver has no accessibility snapshot.
SeleniumAccessibilityTree == NoneDict

\* The record SeleniumBrowserContext.get_state returns when it has no page.
SeleniumDefaultState ==
    [url |-> "", html_content |-> "", accessibility_tree |-> NoneDict,
     focused_element_info |-> NoneDict, viewport_size |-> Size(0, 0),
     screenshot_base64 |-> NoneB64, title |-> ""]

\* SeleniumBrowserContext.get_state(**kwargs).  A closed window makes every
\* primitive raise.
SeleniumGetStateResult(kwargs, failing) ==
    LET doc == Doc(swindow.url)
        fails == IF swindow.open THEN failing ELSE SeleniumFailable
        \* capture_attempted: get_screenshot_as_base64() was called
        this == [op |-> "get_state", kwargs |-> kwargs, failing |-> fails,
                 page |-> sctx.current_page,
                 capture_attempted |->
                     /\ sctx.current_page # Null
                     /\ fails \cap SeleniumUnguarded = {}
                     /\ CaptureScreenshot(kwargs)]
    IN  IF sctx.current_page = Null
        THEN this @@ [outcome |-> "ok", err |-> "none",
                      value |-> SeleniumDefaultState]
        ELSE IF fails \cap SeleniumUnguarded # {}
        THEN this @@ [outcome |-> "raise", err |-> "WebDriverException"]
        ELSE this @@
             [outcome |-> "ok", err |-> "none",
              value |->
                [url |-> swindow.url,
                 html_content |-> Try("markup", fails, doc.html, ""),
                 accessibility_tree |-> SeleniumAccessibilityTree,
                 focused_element_info |->
                     Try("focused", fails,
                         [tag_name |-> doc.active.tag_name,
                          id |-> OrNone(doc.active.id),
                          name |-> OrNone(doc.active.name)],
                         NoneDict),
                 viewport_size |->
                     Try("viewport", fails, swindow.size, Size(0, 0)),
                 screenshot_base64 |->
                     IF CaptureScreenshot(kwargs)
                     THEN Try("screenshot", fails, B64(doc.shot), NoneB64)
                     ELSE NoneB64,
                 title |-> Try("title", fails, doc.title, "")]]

\* BrowserContext.pages of Playwright: the open pages, oldest first.
RECURSIVE OpenPagesFrom(_)
OpenPagesFrom(i) ==
    IF i > Len(pwpages) THEN <<>>
    ELSE (IF pwpages[i].closed THEN <<>> ELSE <<i>>) \o OpenPagesFrom(i + 1)

PwContextPages == OpenPagesFrom(1)

\* Mutant of CustomCurrentPage: the first of the context's pages.
CustomFirstPage ==
    IF PwContextPages = <<>> THEN Null ELSE PwContextPages[1]

\* CustomBrowserContext.get_current_page(): the last of the context's pages.
CustomCurrentPage ==
    IF PwContextPages = <<>> THEN Null
    ELSE PwContextPages[Len(PwContextPages)]

\* page.accessibility.snapshot(interesting_only=...)
AxSnapshot(doc, interesting_only) ==
    [role |-> "WebArea", name |-> doc.title,
     nodes |-> IF interesting_only
               THEN {e \in doc.elements : e # "h1"} ELSE doc.elements]

\* Mutant of CustomUnguarded: the screenshot is taken outside its try block.
CustomUnguardedShot == {"title", "screenshot"}

\* The steps of CustomBrowserContext.get_state outside any try block.
CustomUnguarded == {"title"}

\* Mutant of CustomNoPage: the context answers with the defaulted record
\* of get_state's "no page" branch.
CustomNoPageDefaulted(this) ==
    this @@ [outcome |-> "ok", err |-> "none",
             value |-> [url |-> "", html_content |-> "",
                        accessibility_tree |-> NoneDict,
                        focused_element_id |-> NoneStr,
                        viewport_size |->
                            IF pwctx.viewport_size # NoneDict
                            THEN pwctx.viewport_size ELSE Size(0, 0),
                        screenshot |-> NoneB64]]

\* get_current_page() with no page in the context raises RuntimeError,
\* which get_state() lets through.
CustomNoPage(this) == this @@ [outcome |-> "raise", err |-> "RuntimeError"]

\* page.viewport_size if page.viewport_size else pw_context.viewport_size,
\* outside any try block: the context is asked only when the page reports
\* no viewport, and the call raises when that read does.
ContextViewportRaises(page, failing) ==
    /\ pwpages[page].viewport_size = NoneDict
    /\ "viewport" \in failing

\* CustomBrowserContext.get_state(**kwargs)
CustomGetStateResult(kwargs, failing) ==
    LET page == CustomCurrentPage
        \* capture_attempted: page.screenshot() was called; the title is
        \* read after it, while the returned record is built
        this == [op |-> "get_state", kwargs |-> kwargs, failing |-> failing,
                 page |-> page,
                 capture_attempted |->
                     /\ page # Null
                     /\ ~ContextViewportRaises(page, failing)
                     /\ CaptureScreenshot(kwargs)]
    IN  IF page = Null
        THEN CustomNoPage(this)
        ELSE IF ContextViewportRaises(page, failing)
        THEN this @@ [outcome |-> "raise", err |-> "AttributeError"]
        ELSE IF failing \cap CustomUnguarded # {}
        THEN this @@ [outcome |-> "raise", err |-> "PlaywrightError"]
        ELSE LET doc == Doc(pwpages[page].url)
                 focused_element_id ==
                     Try("focused", failing, OrNone(doc.active.id), NoneStr)
                 viewport_size ==
                     IF pwpages[page].viewport_size # NoneDict
                     THEN pwpages[page].viewport_size
                     ELSE pwctx.viewport_size
             IN  this @@
                 [outcome |-> "ok", err |-> "none",
                  value |->
                    [url |-> pwpages[page].url,
                     html_content |-> Try("markup", failing, doc.html, ""),
                     accessibility_tree |->
                         Try("accessibility", failing,
                             AxSnapshot(doc,
                                 Get(kwargs, "interesting_only", FALSE)),
                             NoneDict),
                     focused_element_info |->
                         IF focused_element_id # NoneStr
                         THEN [id |-> focused_element_id] ELSE NoneDict,
                     viewport_size |->
                         IF viewport_size # NoneDict
                         THEN viewport_size ELSE Size(0, 0),
                     screenshot_base64 |->
                         IF CaptureScreenshot(kwargs)
                         THEN Try("screenshot", failing,
                                  B64(doc.shot), NoneB64)
                         ELSE NoneB64,
                     title |-> doc.title]]

(***************************************************************************)
(* SeleniumBrowserContext and SeleniumPage (src/browser/selenium_context.py)*)
(***************************************************************************)
\* Mutant of UsesWait: `if timeout is not None:`.
UsesWaitWhenGiven(timeout) == timeout # NoneInt

\* `if timeout:` of goto, query_selector and wait_for_load_state -- None
\* and 0 are falsy.
UsesWait(timeout) == timeout # NoneInt /\ timeout # 0

\* Whether a command sent to the driver can succeed: the session is alive
\* and its window is open.
WindowUsable == swindow.open /\ sel.driver # Null /\ drivers[sel.driver].live

\* SeleniumBrowserContext.new_page(): a new wrapper of the same driver.
SeleniumNewPage ==
    /\ adapter = "selenium"
    /\ sctx.pages < MaxPages
    /\ sctx' = [sctx EXCEPT !.pages = @ + 1]
    /\ last' = Returned("new_page") @@ [value |-> sctx.pages + 1]
    /\ UNCHANGED swindow

\* SeleniumBrowserContext.get_current_page()
SeleniumGetCurrentPage ==
    /\ adapter = "selenium"
    /\ last' = Returned("get_current_page") @@ [value |-> sctx.current_page]
    /\ UNCHANGED <<sctx, swindow>>

\* Mutant of SeleniumContextClose: closing the context closes its window.
SeleniumContextCloseWindow ==
    /\ adapter = "selenium"
    /\ sctx' = [sctx EXCEPT !.close_called = TRUE]
    /\ last' = Returned("context.close") @@ [repeated |-> sctx.close_called]
    /\ swindow' = [swindow EXCEPT !.open = FALSE]

\* SeleniumBrowserContext.close(): a no-op.
SeleniumContextClose ==
    /\ adapter = "selenium"
    /\ sctx' = [sctx EXCEPT !.close_called = TRUE]
    /\ last' = Returned("context.close") @@ [repeated |-> sctx.close_called]
    /\ UNCHANGED swindow

\* SeleniumPage.close() on wrapper w: driver.close() closes the window, and
\* raises when the window is already closed.
SeleniumPageClose(w) ==
    /\ adapter = "selenium"
    /\ w \in 1..sctx.pages
    /\ IF WindowUsable
       THEN /\ swindow' = [swindow EXCEPT !.open = FALSE]
            /\ last' = Returned("page.close") @@ [repeated |-> FALSE]
       ELSE /\ last' = Raised("page.close", "WebDriverException")
                          @@ [repeated |-> ~swindow.open]
            /\ UNCHANGED swindow
    /\ UNCHANGED sctx

\* SeleniumPage.goto(url, timeout) on wrapper w; loadOk: driver.get(url)
\* returns, otherwise it raises.  The page-load timeout is kept in seconds,
\* timeout / 1000, as the fraction <<timeout, 1000>>.
SeleniumGoto(w, url, timeout, loadOk) ==
    /\ adapter = "selenium"
    /\ w \in 1..sctx.pages
    /\ LET limit == IF UsesWait(timeout)
                    THEN <<timeout, 1000>> ELSE swindow.page_load_timeout
       IN  IF WindowUsable /\ loadOk
           THEN /\ swindow' = [swindow EXCEPT !.url = url,
                                              !.page_load_timeout = limit]
                /\ dom' = {}
                /\ last' = Returned("goto")
                              @@ [page |-> w, url |-> url,
                                  timeout |-> timeout, limit |-> limit]
           ELSE /\ swindow' = [swindow EXCEPT !.page_load_timeout =
                                   IF WindowUsable THEN limit ELSE @]
                /\ last' = Raised("goto", "WebDriverException")
                              @@ [page |-> w, url |-> url,
                                  timeout |-> timeout, limit |-> limit]
                /\ UNCHANGED dom
    /\ UNCHANGED sctx

\* SeleniumBrowserContext.get_state(**kwargs)
SeleniumGetState(kwargs, failing) ==
    /\ adapter = "selenium"
    /\ failing \subseteq SeleniumFailable
    /\ last' = SeleniumGetStateResult(kwargs, failing)
    /\ UNCHANGED <<sctx, swindow>>

(***************************************************************************)
(* CustomBrowserContext and PlaywrightPage (src/browser/custom_context.py) *)
(***************************************************************************)
\* CustomBrowserContext.new_page(); the backend gives the page the viewport
\* vp, and raises when the context is closed.
CustomNewPage(vp) ==
    /\ adapter = "custom"
    /\ IF pwctx.closed
       THEN /\ last' = Raised("new_page", "PlaywrightError")
            /\ UNCHANGED pwpages
       ELSE /\ Len(pwpages) < MaxPages
            /\ pwpages' = Append(pwpages,
                   [closed |-> FALSE, url |-> "about:blank",
                    viewport_size |-> vp])
            /\ last' = Returned("new_page") @@ [value |-> Len(pwpages) + 1]
    /\ UNCHANGED pwctx

\* CustomBrowserContext.get_current_page()
CustomGetCurrentPage ==
    /\ adapter = "custom"
    /\ last' = IF CustomCurrentPage = Null
               THEN CustomNoPage([op |-> "get_current_page"])
               ELSE Returned("get_current_page")
                        @@ [value |-> CustomCurrentPage]
    /\ UNCHANGED <<pwctx, pwpages>>

\* CustomBrowserContext.close(): BrowserContext.close() closes the context
\* and its pages; on a closed context it returns at once.
CustomContextClose ==
    /\ adapter = "custom"
    /\ pwctx' = [pwctx EXCEPT !.closed = TRUE]
    /\ pwpages' = [i \in DOMAIN pwpages |->
                      [pwpages[i] EXCEPT !.closed = TRUE]]
    /\ last' = Returned("context.close") @@ [repeated |-> pwctx.closed]

\* PlaywrightPage.close() on page pg: Page.close() closes the page; on a
\* closed page the backend's "target closed" error is swallowed by it.
CustomPageClose(pg) ==
    /\ adapter = "custom"
    /\ pg \in DOMAIN pwpages
    /\ pwpages' = [pwpages EXCEPT ![pg].closed = TRUE]
    /\ last' = Returned("page.close") @@ [repeated |-> pwpages[pg].closed]
    /\ UNCHANGED pwctx

\* PlaywrightPage.goto(url, timeout) on page pg; loadOk: Page.goto returns.
CustomGoto(pg, url, timeout, loadOk) ==
    /\ adapter = "custom"
    /\ pg \in DOMAIN pwpages
    /\ IF ~pwpages[pg].closed /\ loadOk
       THEN /\ pwpages' = [pwpages EXCEPT ![pg].url = url]
            /\ dom' = {}
            /\ last' = Returned("goto")
                          @@ [page |-> pg, url |-> url, timeout |-> timeout]
       ELSE /\ last' = Raised("goto", "PlaywrightError")
                          @@ [page |-> pg, url |-> url, timeout |-> timeout]
            /\ UNCHANGED <<pwpages, dom>>
    /\ UNCHANGED pwctx

\* CustomBrowserContext.get_state(**kwargs)
CustomGetState(kwargs, failing) ==
    /\ adapter = "custom"
    /\ failing \subseteq CustomFailable
    /\ last' = CustomGetStateResult(kwargs, failing)
    /\ UNCHANGED <<pwctx, pwpages>>

(***************************************************************************)
(* Element lookup and interaction.  Time is counted in milliseconds from   *)
(* the start of the call in progress.                                      *)
(***************************************************************************)
PollMs == 500       \* WebDriverWait's poll interval, 0.5 s
TickMs == 100       \* granularity of the modelled clock
ClockLagMs == 1     \* a clock read comes this long after the step before it

Selectors == {"#q", "#late"}
Timeouts == {NoneInt, 0, 400, 1000}
Texts == {"hello"}

\* WebDriverWait.until() of the installed selenium: releases differ in
\* whether the deadline is tested after the sleep or before it.
WaitLoops == {"sleep_then_check", "check_then_sleep"}

\* The selectors that match an element of the document shown at url.
Elements(url) == Doc(url).elements \cup dom

\* timeout / 1000, the seconds given to WebDriverWait, as a fraction.
WaitSeconds(timeout) == <<timeout, 1000>>

\* time.monotonic() > end_time, for a wait of `seconds` started at 0 and a
\* clock read just after elapsed_ms.
Expired(elapsed_ms, seconds) ==
    (elapsed_ms + ClockLagMs) * seconds[2] > seconds[1] * 1000

\* A SeleniumPage call op(selector, ..., timeout) starts: query_selector
\* itself, or click / type, which resolve their element through it.
SeleniumBegin(op, selector, text, timeout, loop) ==
    /\ adapter = "selenium"
    /\ call = NoCall
    /\ op \in {"click", "type"} => Len(events) < MaxEvents
    /\ call' = [op |-> op, selector |-> selector, text |-> text,
                timeout |-> timeout, waits |-> UsesWait(timeout),
                loop |-> IF UsesWait(timeout) THEN loop ELSE "none",
                pc |-> "lookup", elapsed |-> 0, wake |-> 0, lookups |-> 0,
                last_lookup |-> 0, inserted |-> NoneInt]
    /\ last' = NoCall
    /\ UNCHANGED <<dom, events>>

\* What the call in progress reports when query_selector comes back with
\* `element` after `lookups` lookups.
Done(element, errored, lookups, last_lookup) ==
    [op |-> call.op, selector |-> call.selector, timeout |-> call.timeout,
     loop |-> call.loop, elapsed |-> call.elapsed, lookups |-> lookups,
     last_lookup |-> last_lookup, inserted |-> call.inserted,
     present |-> call.selector \in Elements(swindow.url),
     errored |-> errored, value |-> element, events_before |-> Len(events)]

\* The event a click or a type on the element of selector produces.
Interaction(op, selector, text) ==
    IF op = "click"
    THEN [kind |-> "click", selector |-> selector]
    ELSE [kind |-> "keys", selector |-> selector, text |-> text]

\* Mutant of Finish: click and type do nothing when no element was found.
FinishSilently(element, errored, lookups, last_lookup) ==
    /\ call' = NoCall
    /\ events' = IF call.op = "query_selector" \/ element = NoneStr
                 THEN events
                 ELSE Append(events,
                             Interaction(call.op, call.selector, call.text))
    /\ last' = Done(element, errored, lookups, last_lookup)
                  @@ [outcome |-> "ok", err |-> "none"]

\* query_selector comes back with `element` (None when nothing was found)
\* and the call in progress ends: query_selector returns it; click and
\* type act on the element, or raise when there is none.
Finish(element, errored, lookups, last_lookup) ==
    /\ call' = NoCall
    /\ IF call.op = "query_selector"
       THEN /\ last' = Done(element, errored, lookups, last_lookup)
                          @@ [outcome |-> "ok", err |-> "none"]
            /\ UNCHANGED events
       ELSE IF element # NoneStr
       THEN /\ events' = Append(events,
                            Interaction(call.op, call.selector, call.text))
            /\ last' = Done(element, errored, lookups, last_lookup)
                          @@ [outcome |-> "ok", err |-> "none"]
       ELSE /\ last' = Done(element, errored, lookups, last_lookup)
                          @@ [outcome |-> "raise",
                              err |-> "Exception: element not found"]
            /\ UNCHANGED events

\* One lookup of the call in progress: find_element, directly or as the
\* condition of the wait.  lookupOk: the driver answers (with the element
\* or NoSuchElementException); otherwise it raises another error, which
\* ends a wait at once.  Every exception makes query_selector return None.
SeleniumLookup(lookupOk) ==
    /\ call # NoCall
    /\ call.pc = "lookup"
    /\ IF ~lookupOk
       THEN Finish(NoneStr, TRUE, call.lookups + 1, call.elapsed)
       ELSE IF call.selector \in Elements(swindow.url)
       THEN Finish(call.selector, FALSE, call.lookups + 1, call.elapsed)
       ELSE IF ~call.waits
       THEN Finish(NoneStr, FALSE, call.lookups + 1, call.elapsed)
       ELSE IF /\ call.loop = "check_then_sleep"
               /\ Expired(call.elapsed, WaitSeconds(call.timeout))
       THEN Finish(NoneStr, FALSE, call.lookups + 1, call.elapsed)
       ELSE /\ call' = [call EXCEPT !.pc = "sleep",
                                    !.wake = call.elapsed + PollMs,
                                    !.lookups = @ + 1,
                                    !.last_lookup = call.elapsed]
            /\ UNCHANGED <<events, last>>
    /\ UNCHANGED dom

\* time.sleep(poll) of the wait: the clock advances.
SeleniumSleep ==
    /\ call # NoCall
    /\ call.pc = "sleep"
    /\ call.elapsed < call.wake
    /\ call' = [call EXCEPT !.elapsed = @ + TickMs]
    /\ UNCHANGED <<dom, events, last>>

\* The sleep is over: the wait looks again, unless its loop tests the
\* deadline here and the time has run out (TimeoutException, so None).
SeleniumWake ==
    /\ call # NoCall
    /\ call.pc = "sleep"
    /\ call.elapsed = call.wake
    /\ IF /\ call.loop = "sleep_then_check"
          /\ Expired(call.elapsed, WaitSeconds(call.timeout))
       THEN Finish(NoneStr, FALSE, call.lookups, call.last_lookup)
       ELSE /\ call' = [call EXCEPT !.pc = "lookup"]
            /\ UNCHANGED <<events, last>>
    /\ UNCHANGED dom

\* Mutant of TypeActiveFailed: the handler re-raises what it caught.
TypeActiveReraised(this) ==
    this @@ [outcome |-> "raise", err |-> "WebDriverException"]

\* except Exception as e: print(...) -- the handler of type_active.
TypeActiveFailed(this) == this @@ [outcome |-> "ok", err |-> "logged"]

\* SeleniumPage.type_active(text, timeout).  focusOk: switch_to.active_element
\* gives an element, otherwise it raises (no active element, dead session);
\* sendOk: send_keys delivers the text, otherwise it raises (element not
\* interactable, stale).  The timeout is not used.
SeleniumTypeActive(text, timeout, focusOk, sendOk) ==
    /\ adapter = "selenium"
    /\ call = NoCall
    /\ Len(events) < MaxEvents
    /\ LET this == [op |-> "type_active", text |-> text,
                    timeout |-> timeout, focused |-> focusOk,
                    sent |-> focusOk /\ sendOk,
                    events_before |-> Len(events)]
       IN  IF focusOk /\ sendOk
           THEN /\ events' = Append(events,
                                [kind |-> "keys", selector |-> ":focus",
                                 text |-> text])
                /\ last' = this @@ [outcome |-> "ok", err |-> "none"]
           ELSE /\ last' = TypeActiveFailed(this)
                /\ UNCHANGED events
    /\ UNCHANGED <<dom, call>>

\* A script of the page adds an element matching selector; when a call is
\* waiting for it, the call's clock says when.
DomInsert(selector) ==
    /\ selector \notin dom
    /\ dom' = dom \cup {selector}
    /\ call' = IF call # NoCall /\ call.selector = selector
               THEN [call EXCEPT !.inserted = call.elapsed]
               ELSE call
    /\ UNCHANGED <<events, last>>

\* PlaywrightPage.query_selector(selector, timeout): one immediate lookup,
\* the timeout is not used.
CustomQuerySelector(selector, timeout) ==
    /\ adapter = "custom"
    /\ call = NoCall
    /\ last' = [op |-> "query_selector", selector |-> selector,
                timeout |-> timeout, outcome |-> "ok", err |-> "none",
                value |-> IF selector \in Elements(pwpages[1].url)
                          THEN selector ELSE NoneStr]
    /\ UNCHANGED <<dom, call, events>>

\* PlaywrightPage.click / type (selector, timeout): Page.click and
\* Page.type wait for the element themselves and raise TimeoutError when
\* it does not show up in time; with timeout 0 they wait without limit.
CustomInteract(op, selector, text, timeout) ==
    /\ adapter = "custom"
    /\ call = NoCall
    /\ Len(events) < MaxEvents
    /\ LET present == selector \in Elements(pwpages[1].url)
           done == [op |-> op, selector |-> selector, timeout |-> timeout,
                    present |-> present, events_before |-> Len(events)]
       IN  IF present
           THEN /\ events' = Append(events, Interaction(op, selector, text))
                /\ last' = done @@ [outcome |-> "ok", err |-> "none",
                                    value |-> selector]
           ELSE /\ timeout # 0
                /\ last' = done @@ [outcome |-> "raise",
                                    err |-> "TimeoutError",
                                    value |-> NoneStr]
                /\ UNCHANGED events
    /\ UNCHANGED <<dom, call>>

(***************************************************************************)
(* Reading a page, listing the pages, waiting for the load state.          *)
(***************************************************************************)
\* The call made just before the one being recorded.
Previous ==
    IF last.op = "goto"
    THEN [op |-> "goto", outcome |-> last.outcome, url |-> last.url,
          page |-> last.page]
    ELSE [op |-> last.op]

Reads == {"title", "get_current_url", "get_content"}

\* Mutant of SeleniumRead: the wrapper answers from the document it saw
\* when it was created.
SeleniumReadStale(what) ==
    CASE what = "title" -> Doc(StartUrl).title
      [] what = "get_current_url" -> StartUrl
      [] what = "get_content" -> Doc(StartUrl).html

\* driver.title, driver.current_url, driver.page_source
SeleniumRead(what) ==
    CASE what = "title" -> Doc(swindow.url).title
      [] what = "get_current_url" -> swindow.url
      [] what = "get_content" -> Doc(swindow.url).html

\* SeleniumPage.title() / get_current_url() / get_content() on wrapper w.
SeleniumPageRead(w, what) ==
    /\ adapter = "selenium"
    /\ w \in 1..sctx.pages
    /\ last' = [page |-> w, after |-> Previous]
                  @@ IF WindowUsable
                     THEN Returned(what) @@ [value |-> SeleniumRead(what)]
                     ELSE Raised(what, "WebDriverException")
    /\ UNCHANGED <<sctx, swindow>>

\* PlaywrightPage.title() / get_current_url() / get_content() on page pg:
\* Page.title(), Page.url, Page.content().  Page.url is an attribute and
\* is also there on a closed page.
CustomPageRead(pg, what) ==
    /\ adapter = "custom"
    /\ pg \in DOMAIN pwpages
    /\ last' = [page |-> pg, after |-> Previous]
                  @@ IF what = "get_current_url"
                     THEN Returned(what) @@ [value |-> pwpages[pg].url]
                     ELSE IF pwpages[pg].closed
                     THEN Raised(what, "PlaywrightError")
                     ELSE Returned(what)
                             @@ [value |-> IF what = "title"
                                           THEN Doc(pwpages[pg].url).title
                                           ELSE Doc(pwpages[pg].url).html]
    /\ UNCHANGED <<pwctx, pwpages>>

\* The driver and the window of it that wrapper w acts on: new_page() and
\* __init__ both build SeleniumPage(self.driver), and nothing opens or
\* switches to another window.
SeleniumPageWindow(w) == <<sel.driver, 1>>

\* Mutant of SeleniumPagesResult: one entry per wrapper handed out.
AllWrappers == [i \in 1..sctx.pages |-> i]

\* What SeleniumBrowserContext.pages() returns: [self._current_page]
SeleniumPagesResult == <<sctx.current_page>>

\* SeleniumBrowserContext.pages()
SeleniumPages ==
    /\ adapter = "selenium"
    /\ last' = Returned("pages") @@ [value |-> SeleniumPagesResult]
    /\ UNCHANGED <<sctx, swindow>>

\* SeleniumPage.wait_for_load_state(state, timeout) on wrapper w.
\* completes: the document reaches readyState 'complete' within the wait.
\* Without a timeout nothing is waited for; with one, every exception of
\* the wait (its TimeoutException, a closed window) is dropped.
SeleniumWaitForLoadState(w, timeout, completes) ==
    /\ adapter = "selenium"
    /\ w \in 1..sctx.pages
    /\ last' = Returned("wait_for_load_state")
                  @@ [page |-> w, timeout |-> timeout,
                      waited |-> UsesWait(timeout),
                      expired |-> /\ UsesWait(timeout)
                                  /\ WindowUsable
                                  /\ ~completes]
    /\ UNCHANGED <<sctx, swindow>>

\* PlaywrightPage.wait_for_load_state(state, timeout) on page pg:
\* Page.wait_for_load_state raises TimeoutError when the state is not
\* reached in time (30 s when timeout is None; no limit when it is 0).
CustomWaitForLoadState(pg, timeout, completes) ==
    /\ adapter = "custom"
    /\ pg \in DOMAIN pwpages
    /\ IF pwpages[pg].closed
       THEN last' = Raised("wait_for_load_state", "PlaywrightError")
                       @@ [page |-> pg, timeout |-> timeout,
                           expired |-> FALSE]
       ELSE IF completes
       THEN last' = Returned("wait_for_load_state")
                       @@ [page |-> pg, timeout |-> timeout,
                           expired |-> FALSE]
       ELSE /\ timeout # 0
            /\ last' = Raised("wait_for_load_state", "TimeoutError")
                          @@ [page |-> pg, timeout |-> timeout,
                              expired |-> TRUE]
    /\ UNCHANGED <<pwctx, pwpages>>

(***************************************************************************)
(* Specifications                                                          *)
(***************************************************************************)
locVars == <<environ, files, found>>
engineVars == <<sel, drivers, cus, pws, pwbrowsers, launched>>
pageVars == <<swindow, sctx, pwctx, pwpages>>
waitVars == <<dom, call, events>>

vars == <<environ, files, found, adapter, last,
          sel, drivers, cus, pws, pwbrowsers, launched,
          swindow, sctx, pwctx, pwpages, dom, call, events>>

NoCalls ==
    /\ dom = {}
    /\ call = NoCall
    /\ events = <<>>

NoPages ==
    /\ swindow = [open |-> FALSE, url |-> StartUrl, size |-> Size(0, 0),
                  page_load_timeout |-> <<300, 1>>]
    /\ sctx = [current_page |-> Null, pages |-> 0, close_called |-> FALSE]
    /\ pwctx = [closed |-> FALSE, viewport_size |-> NoneDict]
    /\ pwpages = <<>>
    /\ NoCalls

NoBrowser ==
    /\ sel = [driver |-> Null, launch_options |-> EmptyDict]
    /\ drivers = <<>>
    /\ cus = [playwright |-> Null, browser |-> Null, launch_args |-> EmptyDict]
    /\ pws = <<>>
    /\ pwbrowsers = <<>>
    /\ launched = FALSE
    /\ last = Returned("init")

\* Spec: one Browser object of either adapter, from its construction on.
Init ==
    /\ environ = BareEnviron
    /\ files \in Hosts
    /\ found = NotRun
    /\ adapter \in {"selenium", "custom"}
    /\ NoBrowser
    /\ NoPages

DoSeleniumLaunch ==
    /\ \E kwargs \in LaunchKwargs, chromeOk \in BOOLEAN :
          SeleniumLaunch(kwargs, chromeOk)
    /\ UNCHANGED <<locVars, pageVars, waitVars>>

DoSeleniumClose ==
    /\ \E quitOk \in BOOLEAN : SeleniumClose(quitOk)
    /\ UNCHANGED <<locVars, pageVars, waitVars>>

DoCustomLaunch ==
    /\ \E kwargs \in LaunchKwargs, startOk \in BOOLEAN, launchOk \in BOOLEAN :
          CustomLaunch(kwargs, startOk, launchOk)
    /\ UNCHANGED <<locVars, pageVars, waitVars>>

DoCustomClose ==
    /\ \E closeOk \in BOOLEAN, stays \in BOOLEAN, stopOk \in BOOLEAN :
          CustomClose(closeOk, stays, stopOk)
    /\ UNCHANGED <<locVars, pageVars, waitVars>>

DoSeleniumNewContext ==
    /\ \E kwargs \in ContextKwargs : SeleniumNewContext(kwargs)
    /\ UNCHANGED <<locVars, adapter, engineVars, waitVars>>

DoCustomNewContext ==
    /\ \E kwargs \in ContextKwargs : CustomNewContext(kwargs)
    /\ UNCHANGED <<locVars, adapter, engineVars, waitVars>>

Next ==
    \/ DoSeleniumLaunch
    \/ DoSeleniumClose
    \/ DoSeleniumNewContext
    \/ DoCustomLaunch
    \/ DoCustomClose
    \/ DoCustomNewContext

Spec == Init /\ [][Next]_vars

\* SpecLoc: the locator run once on an environment and a file system drawn
\* from the bounded sets.
InitLoc ==
    /\ environ \in Environs
    /\ files \in FileSystems
    /\ found = NotRun
    /\ adapter = "none"
    /\ NoBrowser
    /\ NoPages

Locate ==
    /\ found = NotRun
    /\ found' = find_chromedriver_executable
    /\ UNCHANGED <<environ, files, adapter, last>>
    /\ UNCHANGED <<engineVars, pageVars, waitVars>>

NextLoc == Locate

SpecLoc == InitLoc /\ [][NextLoc]_vars

\* SpecCtx: one context of a launched browser of either adapter, from the
\* return of launch() and new_context() on.
LaunchedBrowser ==
    /\ sel = [driver |-> IF adapter = "selenium" THEN 1 ELSE Null,
              launch_options |-> EmptyDict]
    /\ drivers = IF adapter = "selenium"
                 THEN << [session_id |-> 1, live |-> TRUE,
                          executable_path |-> find_chromedriver_executable,
                          options |-> ChromeOptions(EmptyDict)] >>
                 ELSE <<>>
    /\ cus = IF adapter = "custom"
             THEN [playwright |-> 1, browser |-> 1, launch_args |-> EmptyDict]
             ELSE [playwright |-> Null, browser |-> Null,
                   launch_args |-> EmptyDict]
    /\ pws = IF adapter = "custom" THEN << [running |-> TRUE] >> ELSE <<>>
    /\ pwbrowsers = IF adapter = "custom"
                    THEN << [connected |-> TRUE, playwright |-> 1,
                             args |-> EmptyDict] >>
                    ELSE <<>>
    /\ launched = TRUE

InitCtx ==
    /\ environ = BareEnviron
    /\ files = EmptyDict
    /\ found = NotRun
    /\ adapter \in {"selenium", "custom"}
    /\ LaunchedBrowser
    /\ swindow = [open |-> TRUE, url |-> StartUrl, size |-> Size(1280, 720),
                  page_load_timeout |-> <<300, 1>>]
    /\ sctx = [current_page |-> 1, pages |-> 1, close_called |-> FALSE]
    /\ pwctx \in [closed : {FALSE},
                   viewport_size :
                       IF adapter = "custom"
                       THEN {NoneDict, Size(1280, 720)} ELSE {NoneDict}]
    /\ pwpages = <<>>
    /\ NoCalls
    /\ last = Returned("new_context")

ctxFrame == <<locVars, adapter, engineVars>>
quiet == <<ctxFrame, call, events>>

DoSeleniumNewPage == SeleniumNewPage /\ UNCHANGED <<quiet, dom, pwctx, pwpages>>

DoSeleniumGetCurrentPage ==
    SeleniumGetCurrentPage /\ UNCHANGED <<quiet, dom, pwctx, pwpages>>

DoSeleniumContextClose ==
    SeleniumContextClose /\ UNCHANGED <<quiet, dom, pwctx, pwpages>>

DoSeleniumPageClose ==
    /\ \E w \in 1..MaxPages : SeleniumPageClose(w)
    /\ UNCHANGED <<quiet, dom, pwctx, pwpages>>

GotoTimeouts == {NoneInt, 2000}

DoSeleniumGoto ==
    /\ \E w \in 1..MaxPages, url \in Urls, timeout \in GotoTimeouts,
          loadOk \in BOOLEAN :
          SeleniumGoto(w, url, timeout, loadOk)
    /\ UNCHANGED <<quiet, pwctx, pwpages>>

DoSeleniumPageRead ==
    /\ \E w \in 1..MaxPages, what \in Reads : SeleniumPageRead(w, what)
    /\ UNCHANGED <<quiet, dom, pwctx, pwpages>>

DoSeleniumPages == SeleniumPages /\ UNCHANGED <<quiet, dom, pwctx, pwpages>>

DoSeleniumWaitForLoadState ==
    /\ \E w \in 1..MaxPages, timeout \in GotoTimeouts \cup {0},
          completes \in BOOLEAN :
          SeleniumWaitForLoadState(w, timeout, completes)
    /\ UNCHANGED <<quiet, dom, pwctx, pwpages>>

\* A new Playwright page starts with the viewport of its context.
DoCustomNewPage ==
    /\ CustomNewPage(pwctx.viewport_size)
    /\ UNCHANGED <<quiet, dom, swindow, sctx>>

DoCustomGetCurrentPage ==
    CustomGetCurrentPage /\ UNCHANGED <<quiet, dom, swindow, sctx>>

DoCustomContextClose ==
    CustomContextClose /\ UNCHANGED <<quiet, dom, swindow, sctx>>

DoCustomPageClose ==
    /\ \E pg \in 1..MaxPages : CustomPageClose(pg)
    /\ UNCHANGED <<quiet, dom, swindow, sctx>>

DoCustomGoto ==
    /\ \E pg \in 1..MaxPages, url \in Urls, timeout \in GotoTimeouts,
          loadOk \in BOOLEAN :
          CustomGoto(pg, url, timeout, loadOk)
    /\ UNCHANGED <<quiet, swindow, sctx>>

DoCustomPageRead ==
    /\ \E pg \in 1..MaxPages, what \in Reads : CustomPageRead(pg, what)
    /\ UNCHANGED <<quiet, dom, swindow, sctx>>

DoCustomWaitForLoadState ==
    /\ \E pg \in 1..MaxPages, timeout \in GotoTimeouts \cup {0},
          completes \in BOOLEAN :
          CustomWaitForLoadState(pg, timeout, completes)
    /\ UNCHANGED <<quiet, dom, swindow, sctx>>

NextCtx ==
    \/ DoSeleniumNewPage
    \/ DoSeleniumGetCurrentPage
    \/ DoSeleniumContextClose
    \/ DoSeleniumPageClose
    \/ DoSeleniumGoto
    \/ DoSeleniumPageRead
    \/ DoSeleniumPages
    \/ DoSeleniumWaitForLoadState
    \/ DoCustomNewPage
    \/ DoCustomGetCurrentPage
    \/ DoCustomContextClose
    \/ DoCustomPageClose
    \/ DoCustomGoto
    \/ DoCustomPageRead
    \/ DoCustomWaitForLoadState

SpecCtx == InitCtx /\ [][NextCtx]_vars

\* SpecState: get_current_page() and get_state() as functions of the state
\* of a context: the initial states are the states SpecCtx leaves a context
\* in (the window open or closed on any document; any pages, open or
\* closed, on any documents, all closed once the context is closed).
PageUrls == Urls \cup {"about:blank"}

PwPageStates ==
    [closed : BOOLEAN, url : PageUrls,
     viewport_size : {NoneDict, Size(800, 600)}]

PwPageLists ==
    UNION { [1..n -> PwPageStates] : n \in 0..MaxPages }

InitState ==
    /\ environ = BareEnviron
    /\ files = EmptyDict
    /\ found = NotRun
    /\ adapter \in {"selenium", "custom"}
    /\ LaunchedBrowser
    /\ IF adapter = "selenium"
       THEN /\ swindow \in [open : BOOLEAN, url : Urls \cup {StartUrl},
                             size : {Size(1280, 720)},
                             page_load_timeout : {<<300, 1>>}]
            /\ sctx \in [current_page : {1}, pages : 1..MaxPages,
                          close_called : BOOLEAN]
            /\ pwctx = [closed |-> FALSE, viewport_size |-> NoneDict]
            /\ pwpages = <<>>
       ELSE /\ swindow = [open |-> TRUE, url |-> StartUrl,
                          size |-> Size(1280, 720),
                          page_load_timeout |-> <<300, 1>>]
            /\ sctx = [current_page |-> 1, pages |-> 1,
                       close_called |-> FALSE]
            /\ pwctx \in [closed : BOOLEAN,
                           viewport_size : {NoneDict, Size(1280, 720)}]
            /\ pwpages \in PwPageLists
            /\ pwctx.closed =>
                   \A i \in DOMAIN pwpages : pwpages[i].closed
    /\ NoCalls
    /\ last = Returned("new_context")

DoSeleniumGetState ==
    /\ \E kwargs \in StateKwargs, failing \in SUBSET SeleniumFailable :
          SeleniumGetState(kwargs, failing)
    /\ UNCHANGED <<quiet, dom, pwctx, pwpages>>

DoCustomGetState ==
    /\ \E kwargs \in StateKwargs, failing \in SUBSET CustomFailable :
          CustomGetState(kwargs, failing)
    /\ UNCHANGED <<quiet, dom, swindow, sctx>>

\* One observation is made of each drawn context.
Unobserved == last.op = "new_context"

ObserveSeleniumCurrentPage == Unobserved /\ DoSeleniumGetCurrentPage
ObserveCustomCurrentPage == Unobserved /\ DoCustomGetCurrentPage
ObserveSeleniumState == Unobserved /\ DoSeleniumGetState
ObserveCustomState == Unobserved /\ DoCustomGetState

NextState ==
    \/ ObserveSeleniumCurrentPage
    \/ ObserveCustomCurrentPage
    \/ ObserveSeleniumState
    \/ ObserveCustomState

SpecState == InitState /\ [][NextState]_vars

\* SpecPage: one page of a launched browser of either adapter, from the
\* return of new_page() on, with the elements scripts add to its document.
InitPage ==
    /\ environ = BareEnviron
    /\ files = EmptyDict
    /\ found = NotRun
    /\ adapter \in {"selenium", "custom"}
    /\ LaunchedBrowser
    /\ swindow = [open |-> TRUE, url |-> StartUrl, size |-> Size(1280, 720),
                  page_load_timeout |-> <<300, 1>>]
    /\ sctx = [current_page |-> 1,
               pages |-> IF adapter = "selenium" THEN 2 ELSE 1,
               close_called |-> FALSE]
    /\ pwctx = [closed |-> FALSE, viewport_size |-> NoneDict]
    /\ pwpages = IF adapter = "custom"
                 THEN << [closed |-> FALSE, url |-> "about:blank",
                          viewport_size |-> NoneDict] >>
                 ELSE <<>>
    /\ NoCalls
    /\ last = Returned("new_page") @@
                 [value |-> IF adapter = "selenium" THEN 2 ELSE 1]

pageFrame == <<locVars, adapter, engineVars, pageVars>>

DoSeleniumQuerySelector ==
    /\ \E selector \in Selectors, timeout \in Timeouts, loop \in WaitLoops :
          SeleniumBegin("query_selector", selector, "", timeout, loop)
    /\ UNCHANGED pageFrame

DoSeleniumClick ==
    /\ \E selector \in Selectors, timeout \in Timeouts, loop \in WaitLoops :
          SeleniumBegin("click", selector, "", timeout, loop)
    /\ UNCHANGED pageFrame

DoSeleniumType ==
    /\ \E selector \in Selectors, text \in Texts, timeout \in Timeouts,
          loop \in WaitLoops :
          SeleniumBegin("type", selector, text, timeout, loop)
    /\ UNCHANGED pageFrame

DoSeleniumTypeActive ==
    /\ \E text \in Texts, timeout \in Timeouts, focusOk \in BOOLEAN,
          sendOk \in BOOLEAN :
          SeleniumTypeActive(text, timeout, focusOk, sendOk)
    /\ UNCHANGED pageFrame

\* goto and wait_for_load_state on the page, between two calls.
PageTimeouts == {NoneInt, 0, 400}

PageSeleniumGoto ==
    /\ call = NoCall
    /\ \E timeout \in PageTimeouts, loadOk \in BOOLEAN :
          SeleniumGoto(sctx.pages, "http://form.test", timeout, loadOk)
    /\ UNCHANGED <<ctxFrame, pwctx, pwpages, call, events>>

PageSeleniumWaitForLoadState ==
    /\ call = NoCall
    /\ \E timeout \in PageTimeouts, completes \in BOOLEAN :
          SeleniumWaitForLoadState(sctx.pages, timeout, completes)
    /\ UNCHANGED <<ctxFrame, pwctx, pwpages, dom, call, events>>

DoSeleniumLookup ==
    /\ \E lookupOk \in BOOLEAN : SeleniumLookup(lookupOk)
    /\ UNCHANGED pageFrame

DoSeleniumSleep == SeleniumSleep /\ UNCHANGED pageFrame

DoSeleniumWake == SeleniumWake /\ UNCHANGED pageFrame

DoDomInsert ==
    /\ \E selector \in Selectors : DomInsert(selector)
    /\ UNCHANGED pageFrame

DoCustomQuerySelector ==
    /\ \E selector \in Selectors, timeout \in Timeouts :
          CustomQuerySelector(selector, timeout)
    /\ UNCHANGED pageFrame

DoCustomClick ==
    /\ \E selector \in Selectors, timeout \in Timeouts :
          CustomInteract("click", selector, "", timeout)
    /\ UNCHANGED pageFrame

DoCustomType ==
    /\ \E selector \in Selectors, text \in Texts, timeout \in Timeouts :
          CustomInteract("type", selector, text, timeout)
    /\ UNCHANGED pageFrame

NextPage ==
    \/ DoSeleniumQuerySelector
    \/ DoSeleniumClick
    \/ DoSeleniumType
    \/ DoSeleniumTypeActive
    \/ PageSeleniumGoto
    \/ PageSeleniumWaitForLoadState
    \/ DoSeleniumLookup
    \/ DoSeleniumSleep
    \/ DoSeleniumWake
    \/ DoDomInsert
    \/ DoCustomQuerySelector
    \/ DoCustomClick
    \/ DoCustomType

SpecPage == InitPage /\ [][NextPage]_vars

(***************************************************************************)
(* Claims                                                                  *)
(***************************************************************************)

\* C1: is_connected is false before the first launch and after every close,
\* and true in every state between a successful launch and the next close.
C1_ConnectedTracksLifecycle == IsConnected <=> launched

\* C2: Browser.close() never raises, on a first or on a repeated call, and
\* is_connected is false after it, also when the backend's quit/close fails.
C2_CloseNeverRaises ==
    last.op = "close" => (last.outcome = "ok" /\ ~IsConnected)

\* C3: a second Page.close() or BrowserContext.close(), on a page or context
\* that is already closed, returns without raising, in both adapters.
C3_CloseIdempotent ==
    (last.op \in {"page.close", "context.close"} /\ last.repeated)
        => last.outcome = "ok"

\* C4: after Browser.close() has returned, no native engine that this
\* Browser object started is still alive, however often launch was called.
C4_CloseReleasesEngines ==
    (last.op = "close" /\ last.outcome = "ok") => LiveEngines = {}

\* The page get_state() observes, its URL and its document.
ObservedUrl ==
    IF adapter = "selenium" THEN swindow.url
    ELSE pwpages[CustomCurrentPage].url
ObservedDoc == Doc(ObservedUrl)

\* The field of the snapshot that a step fills, at its null/empty default.
Defaulted(step, value) ==
    CASE step = "markup" -> value.html_content = ""
      [] step = "accessibility" -> value.accessibility_tree = NoneDict
      [] step = "focused" -> value.focused_element_info = NoneDict
      [] step = "viewport" -> value.viewport_size = Size(0, 0)
      [] step = "screenshot" -> value.screenshot_base64 = NoneB64
      [] step = "title" -> value.title = ""

\* The field of the snapshot that a step fills, holding what the page shows.
Populated(step, value, kwargs) ==
    CASE step = "markup" -> value.html_content = ObservedDoc.html
      [] step = "accessibility" ->
           (adapter = "custom") => value.accessibility_tree # NoneDict
      [] step = "focused" ->
           (adapter = "selenium" \/ ObservedDoc.active.id # "")
               => value.focused_element_info # NoneDict
      [] step = "viewport" ->
           (adapter = "selenium") => value.viewport_size = swindow.size
      [] step = "screenshot" ->
           Get(kwargs, "capture_screenshot", TRUE)
               => value.screenshot_base64 = B64(ObservedDoc.shot)
      [] step = "title" -> value.title = ObservedDoc.title

Enrichment == {"accessibility", "focused", "screenshot"}

IsolatedSteps ==
    {"markup", "accessibility", "focused", "viewport", "screenshot", "title"}

\* C6: every step after resolving the page is isolated: whichever of the
\* steps markup, accessibility, focused element, viewport, screenshot and
\* title fail, get_state() returns a record in which the failed fields are
\* at their defaults and the fields of all other steps are populated.
C6_EveryStepIsolated ==
    (/\ last.op = "get_state"
     /\ last.page # Null
     /\ last.failing \subseteq IsolatedSteps)
        => /\ last.outcome = "ok"
           /\ \A k \in last.failing : Defaulted(k, last.value)
           /\ \A k \in IsolatedSteps \ last.failing :
                  Populated(k, last.value, last.kwargs)

\* The context has no page to resolve.
NoPage ==
    IF adapter = "selenium" THEN sctx.current_page = Null
    ELSE PwContextPages = <<>>

\* C7: with no page in the context, get_current_page() raises the
\* not-found error (RuntimeError "No pages available"), and get_state()
\* raises the same error instead of returning a defaulted record.
C7_NoPageRaises ==
    (last.op \in {"get_current_page", "get_state"} /\ NoPage)
        => (last.outcome = "raise" /\ last.err = "RuntimeError")

\* C7 witness: get_state() was called on a Playwright context whose pages
\* are all closed, and it raised.
C7_Witness ==
    /\ adapter = "custom"
    /\ Len(pwpages) > 0
    /\ NoPage
    /\ last.op = "get_state"
    /\ last.outcome = "raise"
    /\ last.err = "RuntimeError"

\* A click or type call ended while its selector matched no element.
MissedInteraction ==
    /\ last.op \in {"click", "type"}
    /\ ~last.present

AnsweredQuery ==
    /\ adapter = "selenium"
    /\ last.op = "query_selector"
    /\ ~last.errored

\* C9, first part: with an explicit timeout T, query_selector returns null
\* for a selector that never matched only when T milliseconds are over.
C9_NullOnlyAfterTimeout ==
    (AnsweredQuery /\ last.timeout # NoneInt /\ last.value = NoneStr)
        => last.elapsed >= last.timeout

\* C9, second part: without a timeout, query_selector makes one lookup and
\* returns at once.
C9_SingleLookupWithoutTimeout ==
    (AnsweredQuery /\ last.timeout = NoneInt)
        => (last.lookups = 1 /\ last.elapsed = 0)

\* C9, third part: a query_selector with timeout T returns the element when
\* it appeared in the document within the T milliseconds of the wait.
C9_AppearingElementReturned ==
    (/\ AnsweredQuery
     /\ UsesWait(last.timeout)
     /\ last.inserted # NoneInt
     /\ last.inserted <= last.timeout)
        => last.value = last.selector

\* C9: on the WebDriver adapter, query_selector with timeout T returns null
\* for a never-matching selector only once T is over, without a timeout it
\* makes exactly one lookup and returns without waiting, and an element
\* that appears during the wait is returned.
C9_BoundedWait ==
    /\ C9_NullOnlyAfterTimeout
    /\ C9_SingleLookupWithoutTimeout
    /\ C9_AppearingElementReturned

\* The CHROMEDRIVER_PATH override names an existing executable file.
OverrideIsExecutableFile ==
    /\ environ.CHROMEDRIVER_PATH \notin {NonePath, <<>>}
    /\ AbsPath(environ.CHROMEDRIVER_PATH) \in DOMAIN files
    /\ files[AbsPath(environ.CHROMEDRIVER_PATH)] = "exec"

\* C10: whenever the CHROMEDRIVER_PATH override names a path that exists and
\* is an executable file, find_chromedriver_executable returns exactly that
\* path, whatever else is installed on PATH, in the conventional locations
\* or under the NIX_PROFILES profiles.
C10_OverrideWins ==
    (found # NotRun /\ OverrideIsExecutableFile)
        => found = environ.CHROMEDRIVER_PATH

\* C10 witness: the override is usable, a candidate on PATH would have
\* matched too, and the locator returned the override.
C10_Witness ==
    /\ found # NotRun
    /\ OverrideIsExecutableFile
    /\ environ.CHROMEDRIVER_PATH = OverridePath
    /\ Which # NonePath
    /\ found = OverridePath

\* The candidates of the locator in the documented order: the override,
\* chromedriver in each directory of the search path, the conventional
\* locations, and bin/chromedriver under each profile NIX_PROFILES lists.
ListedProfiles ==
    IF environ.NIX_PROFILES = NoneTokens THEN <<>>
    ELSE SelectSeq(environ.NIX_PROFILES, LAMBDA t : t # Space)

Candidates ==
    (IF environ.CHROMEDRIVER_PATH \in {NonePath, <<>>} THEN <<>>
     ELSE <<environ.CHROMEDRIVER_PATH>>)
    \o [i \in 1..Len(environ.PATH) |-> environ.PATH[i] \o <<"chromedriver">>]
    \o << Cwd \o <<"chromedriver">>,
          Home \o <<".local", "bin", "chromedriver">>,
          Cwd \o <<".pythonlibs", "bin", "chromedriver">>,
          <<Root, "usr", "local", "bin", "chromedriver">>,
          <<Root, "usr", "bin", "chromedriver">> >>
    \o [i \in 1..Len(ListedProfiles) |->
           ListedProfiles[i] \o <<"bin", "chromedriver">>]

\* The file a path names is an existing executable regular file.
ExecutableFile(p) ==
    /\ AbsPath(p) \in DOMAIN files
    /\ files[AbsPath(p)] = "exec"

UsableCandidates == {i \in 1..Len(Candidates) : ExecutableFile(Candidates[i])}

\* The locator's result is the first usable candidate, or None when no
\* candidate is usable.
FirstCandidateReturned ==
    IF UsableCandidates = {} THEN found = NonePath
    ELSE /\ found # NonePath
         /\ AbsPath(found) =
               AbsPath(Candidates[CHOOSE i \in UsableCandidates :
                                     \A j \in UsableCandidates : i <= j])

\* C11: find_chromedriver_executable looks at the override, the search
\* path, the conventional locations in list order and the profile paths in
\* the order of the profiles, and returns the first candidate that is an
\* existing executable file; it returns None exactly when there is none,
\* and whatever path it returns is an existing executable file.
C11_FirstCandidateWins ==
    found # NotRun
        => /\ FirstCandidateReturned
           /\ found # NonePath => ExecutableFile(found)

\* C11 holds of every environment whose NIX_PROFILES has single blanks
\* between its profiles and none at either end.
C11_FirstCandidateWinsWellFormed ==
    (/\ found # NotRun
     /\ \/ environ.NIX_PROFILES = NoneTokens
        \/ Len(ListedProfiles) = Len(SplitSpace(environ.NIX_PROFILES, 1, <<>>)))
        => /\ FirstCandidateReturned
           /\ found # NonePath => ExecutableFile(found)

\* C12: new_context() raises ConnectionError whenever the browser has no
\* live session (never launched, launch failed, closed), and returns a
\* context only between a successful launch and the next close.
C12_NewContextNeedsSession ==
    last.op = "new_context"
        => /\ ~launched => (last.outcome = "raise"
                            /\ last.err = "ConnectionError")
           /\ last.outcome = "ok" => launched

\* C19: CustomBrowser.new_context hands the backend one flat mapping: the
\* keyword options themselves when no configuration object is given, the
\* fields of the object given under 'config' otherwise; the configuration
\* object itself is never an option value of the backend call.
C19_OptionsNormalized ==
    (adapter = "custom" /\ last.op = "new_context"
       /\ "backend_options" \in DOMAIN last)
        => /\ "config" \notin DOMAIN last.backend_options
           /\ last.backend_options =
                 IF "config" \in DOMAIN last.kwargs
                 THEN last.kwargs.config.fields
                 ELSE last.kwargs

\* C19 holds of the flat mapping, the model with model_dump and the dict.
C19_OptionsNormalizedKnownShapes ==
    (adapter = "custom" /\ last.op = "new_context"
       /\ "backend_options" \in DOMAIN last
       /\ ("config" \in DOMAIN last.kwargs
              => last.kwargs.config.kind \in {"model", "dict"}))
        => /\ "config" \notin DOMAIN last.backend_options
           /\ last.backend_options =
                 IF "config" \in DOMAIN last.kwargs
                 THEN last.kwargs.config.fields
                 ELSE last.kwargs

\* A launch() call has just raised.
LaunchFailed == last.op = "launch" /\ last.outcome = "raise"

\* new_context() would raise ConnectionError in this state.
NewContextRefused ==
    IF adapter = "selenium" THEN sel.driver = Null ELSE cus.browser = Null

\* C20: when launch() fails it raises, and the browser is left not
\* launched: is_connected is false, new_context() raises ConnectionError,
\* and the next launch() starts the engine again.
C20_FailedLaunchLeavesNotLaunched ==
    LaunchFailed => (~IsConnected /\ NewContextRefused)

\* C20 holds of every launch() made on a browser object that holds no
\* browser at the time.
C20_FailedLaunchFromNotLaunched ==
    [][(NewContextRefused /\ LaunchFailed')
          => (~IsConnected /\ NewContextRefused)']_vars

\* C13: a page operation whose bounded wait expires reports the expiry to
\* its caller as a timeout error; wait_for_load_state in particular never
\* returns normally when the load state was not reached in time.
C13_TimeoutReported ==
    (last.op = "wait_for_load_state" /\ last.expired)
        => (last.outcome = "raise" /\ last.err = "TimeoutError")

\* C14: on the WebDriver adapter a goto() called without a timeout runs
\* under the page-load limit of a driver no goto() ever gave a timeout to,
\* the default of 300 s, whatever timeouts earlier goto() calls were given.
C14_TimeoutBoundsOneCall ==
    (adapter = "selenium" /\ last.op = "goto" /\ last.timeout = NoneInt)
        => last.limit = <<300, 1>>

\* A read of a page made right after a goto() on that page returned.
ReadAfterGoto ==
    /\ last.op \in Reads
    /\ last.after.op = "goto"
    /\ last.after.outcome = "ok"
    /\ last.after.page = last.page

\* C15: title(), get_current_url() and get_content() called right after a
\* goto(url) that returned, on the same page, give the title, the URL and
\* the markup of the document at url.
C15_ReadsReflectNavigation ==
    ReadAfterGoto
        => /\ last.outcome = "ok"
           /\ last.op = "title" => last.value = Doc(last.after.url).title
           /\ last.op = "get_current_url" => last.value = last.after.url
           /\ last.op = "get_content" => last.value = Doc(last.after.url).html

\* C15 witness: on the WebDriver adapter, title() right after a goto() to
\* the example page returned that page's title.
C15_Witness ==
    /\ adapter = "selenium"
    /\ ReadAfterGoto
    /\ last.op = "title"
    /\ last.after.url = "http://example.com"
    /\ last.value = "Example Domain"

NewestPage ==
    IF adapter = "selenium" THEN sctx.pages
    ELSE IF pwpages # <<>> /\ ~pwpages[Len(pwpages)].closed
    THEN Len(pwpages) ELSE Null

\* Pages p and q are the same page of the backend.
Denotes(p, q) ==
    IF adapter = "selenium"
    THEN SeleniumPageWindow(p) = SeleniumPageWindow(q)
    ELSE p = q

\* C17: the page get_current_page() returns, and the page get_state()
\* observes, is the page of the context that was created last.
C17_CurrentPageIsNewest ==
    NewestPage # Null
        => /\ last.op = "get_current_page"
                 => (last.outcome = "ok" /\ Denotes(last.value, NewestPage))
           /\ last.op = "get_state" => Denotes(last.page, NewestPage)

\* C17 witness: a Playwright context holds two open pages and
\* get_current_page() returned the second.
C17_Witness ==
    /\ adapter = "custom"
    /\ Len(pwpages) = 2
    /\ ~pwpages[1].closed
    /\ NewestPage = 2
    /\ last.op = "get_current_page"
    /\ last.value = 2

\* C18: on the WebDriver adapter BrowserContext.close() changes nothing:
\* the driver session and window stay as they are, is_connected keeps its
\* value, and pages(), get_current_page() and get_state() give the same
\* results after it as before.
C18_ContextCloseChangesNothing ==
    [][(adapter = "selenium" /\ last'.op = "context.close")
          => /\ swindow' = swindow
             /\ drivers' = drivers
             /\ sel' = sel
             /\ SeleniumIsConnected' = SeleniumIsConnected
             /\ SeleniumPagesResult' = SeleniumPagesResult
             /\ sctx'.current_page = sctx.current_page
             /\ \A kwargs \in StateKwargs, failing \in SUBSET SeleniumFailable :
                   SeleniumGetStateResult(kwargs, failing)'
                      = SeleniumGetStateResult(kwargs, failing)]_vars

\* C18 witness: close() was called on a WebDriver context whose session is
\* live; the window is open and the browser connected.
C18_Witness ==
    /\ adapter = "selenium"
    /\ last.op = "context.close"
    /\ WindowUsable
    /\ SeleniumIsConnected
    /\ sctx.pages >= 2

\* get_state() resolved its page and read the page's URL and viewport, so
\* the call got as far as the screenshot step.
ReachedScreenshotStep ==
    /\ last.op = "get_state"
    /\ last.page # Null
    /\ "url" \notin last.failing
    /\ ~(last.outcome = "raise" /\ last.err = "AttributeError")

\* The gate alone: a capture is attempted exactly when capture_screenshot
\* is true or absent, and a record returned without a capture has a null
\* screenshot field.
ScreenshotGateRespected ==
    /\ last.capture_attempted = CaptureScreenshot(last.kwargs)
    /\ (~last.capture_attempted /\ last.outcome = "ok")
           => last.value.screenshot_base64 = NoneB64

\* C21: in both adapters get_state() attempts a screenshot exactly when
\* the capture_screenshot option is true or absent; with the option false
\* the screenshot field is null; and when the attempted capture fails,
\* get_state() returns a record whose screenshot field is null.
C21_ScreenshotGated ==
    ReachedScreenshotStep
        => /\ ScreenshotGateRespected
           /\ (last.capture_attempted /\ "screenshot" \in last.failing)
                  => /\ last.outcome = "ok"
                     /\ last.value.screenshot_base64 = NoneB64

\* C21 while the title of the page can be read: the same statement holds.
C21_ScreenshotGatedTitleReadable ==
    (ReachedScreenshotStep /\ "title" \notin last.failing)
        => /\ ScreenshotGateRespected
           /\ (last.capture_attempted /\ "screenshot" \in last.failing)
                  => /\ last.outcome = "ok"
                     /\ last.value.screenshot_base64 = NoneB64

\* C21 on the WebDriver adapter, whatever else fails.
C21_ScreenshotGatedSelenium ==
    (ReachedScreenshotStep /\ adapter = "selenium")
        => /\ ScreenshotGateRespected
           /\ (last.capture_attempted /\ "screenshot" \in last.failing)
                  => /\ last.outcome = "ok"
                     /\ last.value.screenshot_base64 = NoneB64

\* The keys of the record get_state() builds on its last lines.
StateFields ==
    {"url", "html_content", "accessibility_tree", "focused_element_info",
     "viewport_size", "screenshot_base64", "title"}

\* C22: every record get_state() returns has the same field names in both
\* adapters, whatever steps failed, and on the WebDriver adapter its
\* accessibility field is null.
C22_SameShape ==
    (last.op = "get_state" /\ last.outcome = "ok")
        => /\ DOMAIN last.value = StateFields
           /\ (adapter = "selenium")
                  => last.value.accessibility_tree = NoneDict

\* C22 witness: a Playwright context returned a record although its
\* markup and screenshot steps failed, with an accessibility tree in it.
C22_Witness ==
    /\ adapter = "custom"
    /\ last.op = "get_state"
    /\ last.outcome = "ok"
    /\ last.failing = {"markup", "screenshot"}
    /\ last.value.accessibility_tree # NoneDict
    /\ last.value.html_content = ""

\* The viewport the snapshot should carry: the page's own when it reports
\* one, else the default of the context or window when that can be had,
\* else 0 x 0.  A WebDriver page reports no viewport of its own.
PreferredViewport(failing) ==
    IF adapter = "selenium"
    THEN IF "viewport" \in failing THEN Size(0, 0) ELSE swindow.size
    ELSE IF pwpages[CustomCurrentPage].viewport_size # NoneDict
    THEN pwpages[CustomCurrentPage].viewport_size
    ELSE IF "viewport" \notin failing /\ pwctx.viewport_size # NoneDict
    THEN pwctx.viewport_size
    ELSE Size(0, 0)

\* get_state() resolved its page and no step other than the viewport step
\* makes the call raise: the URL read of the WebDriver adapter and the
\* title read of the Playwright adapter succeed.
ViewportStepDecides ==
    /\ last.op = "get_state"
    /\ last.page # Null
    /\ (adapter = "selenium") => "url" \notin last.failing
    /\ (adapter = "custom") => "title" \notin last.failing

\* C23: the viewport field of the snapshot is the page's own viewport when
\* the page reports one, otherwise the context/window default when that
\* exists, otherwise 0 x 0; the record is returned and the field is never
\* null.
C23_ViewportPreference ==
    ViewportStepDecides
        => /\ last.outcome = "ok"
           /\ last.value.viewport_size # NoneDict
           /\ last.value.viewport_size = PreferredViewport(last.failing)

\* C23 wherever the context's own viewport can be read, or need not be:
\* the same statement holds.
C23_ViewportPreferenceContextReadable ==
    (/\ ViewportStepDecides
     /\ (adapter = "custom") => ~ContextViewportRaises(last.page, last.failing))
        => /\ last.outcome = "ok"
           /\ last.value.viewport_size # NoneDict
           /\ last.value.viewport_size = PreferredViewport(last.failing)

\* C24: SeleniumBrowser.launch() on a browser that already holds a driver
\* is a no-op: it returns without starting a second native session, keeps
\* the driver it holds and keeps the launch options stored by the first
\* launch, whatever options it is called with.
C24_RelaunchIsNoOp ==
    [][(adapter = "selenium" /\ sel.driver # Null /\ last'.op = "launch")
          => /\ last'.outcome = "ok"
             /\ drivers' = drivers
             /\ sel'.driver = sel.driver
             /\ sel'.launch_options = sel.launch_options]_vars

\* C24 witness: launch() returned on a browser holding a live driver, and
\* the options it was called with are not the stored ones, so this call
\* was a relaunch with different options.
C24_Witness ==
    /\ adapter = "selenium"
    /\ last.op = "launch"
    /\ last.outcome = "ok"
    /\ sel.driver # Null
    /\ drivers[sel.driver].live
    /\ last.kwargs # sel.launch_options
    /\ Len(drivers) = 1

\* C25: on the WebDriver adapter type_active(text) never raises: with no
\* focused element, or with a failing send_keys, it returns with no
\* keystroke delivered; with both succeeding it delivers the text once;
\* and this is so for every timeout argument.
C25_TypeActiveNeverRaises ==
    (adapter = "selenium" /\ last.op = "type_active")
        => /\ last.outcome = "ok"
           /\ (~last.focused \/ ~last.sent)
                  => Len(events) = last.events_before
           /\ (last.focused /\ last.sent)
                  => /\ Len(events) = last.events_before + 1
                     /\ events[Len(events)].text = last.text

\* C25 witness: type_active was called with a timeout of one second on a
\* page whose focused element rejected the keystrokes; it returned and
\* nothing was delivered.
C25_Witness ==
    /\ adapter = "selenium"
    /\ last.op = "type_active"
    /\ last.timeout = 1000
    /\ last.focused
    /\ ~last.sent
    /\ last.outcome = "ok"
    /\ events = <<>>

\* C26: on the WebDriver adapter a timeout of 0 is treated like no
\* timeout: query_selector(selector, 0) makes one immediate lookup and
\* does not poll, goto(url, 0) leaves the page-load timeout of the driver
\* as it was, and wait_for_load_state(state, 0) does not wait; each as the
\* same call without a timeout does.
C26_ZeroIsNoTimeout ==
    [][(adapter = "selenium" /\ last'.op # "none"
        /\ "timeout" \in DOMAIN last' /\ last'.timeout \in {0, NoneInt})
          => /\ (last'.op \in {"query_selector", "click", "type"})
                    => /\ last'.lookups = 1
                       /\ last'.elapsed = 0
                       /\ last'.loop = "none"
             /\ (last'.op = "goto")
                    => /\ swindow'.page_load_timeout
                              = swindow.page_load_timeout
                       /\ last'.limit = swindow.page_load_timeout
             /\ (last'.op = "wait_for_load_state")
                    => (~last'.waited /\ ~last'.expired)]_vars

\* C26 witness: after a goto with a timeout of 400 ms had set the driver's
\* page-load timeout, goto(url, 0) loaded another page and the timeout is
\* still 400 ms.
C26_Witness ==
    /\ adapter = "selenium"
    /\ last.op = "goto"
    /\ last.timeout = 0
    /\ last.outcome = "ok"
    /\ swindow.url = last.url
    /\ swindow.page_load_timeout = <<400, 1000>>

====
